---- MODULE Spec2Model ----
(***************************************************************************)
(* Model of the email-receipts application: the bulk-send pipeline         *)
(* (app.py send_bulk driving EmailService.send_bulk_receipts, the Brevo    *)
(* gateway call and the SentEmail audit log), the single sends of the form *)
(* and of the JSON API, the audit views (list and CSV export) and the      *)
(* transaction-id derivation extract_transaction_id, the login route with   *)
(* its rate limiter, the CSRF check of the form routes, and the single      *)
(* sends of app_basic.                                                      *)
(*                                                                         *)
(* Python strings are modelled as sequences of one-character strings, so   *)
(* that strip(), lower(), int(), startswith() and split() are computed.    *)
(***************************************************************************)
EXTENDS Integers, Sequences, FiniteSets, TLC

\* ------------------------------------------------------------------ bounds
\* largest number of data rows in an uploaded CSV
MaxRows == 2
\* longest gateway message_id given to extract_transaction_id
MaxIdLen == 5
\* number of write requests (single, API, bulk) a session of the application
\* makes, and of records in the table the audit views are asked about
MaxLog == 2
\* last instant of the clock
MaxTime == 2
\* number of login POSTs one run receives
MaxPosts == 6
\* number of those POSTs that the second caller address may have admitted
MaxOtherPosts == 1
\* number of login POSTs that can be handled at the same time
MaxThreads == 2

\* ------------------------------------------------------- Python sentinels
\* Python None (a short CSV row leaves its trailing columns None)
None == <<"None">>
\* the key is absent from the DictReader row: the column is not in the header
Missing == <<"Missing">>
\* a local variable of send_bulk_receipts that no iteration has assigned yet
Unbound == <<"Unbound">>
\* error_message None
NoError == "None"

\* ---------------------------------------------------------- string helpers
UpperCase == <<"A","B","C","D","E","F","G","H","I","J","K","L","M",
               "N","O","P","Q","R","S","T","U","V","W","X","Y","Z">>
LowerCase == <<"a","b","c","d","e","f","g","h","i","j","k","l","m",
               "n","o","p","q","r","s","t","u","v","w","x","y","z">>
Digits == <<"0","1","2","3","4","5","6","7","8","9">>

\* the lower-case letter of every upper-case letter
LowerOf == [c \in {UpperCase[i] : i \in DOMAIN UpperCase} |->
               LowerCase[CHOOSE i \in DOMAIN UpperCase : UpperCase[i] = c]]

LowerChar(c) == IF c \in DOMAIN LowerOf THEN LowerOf[c] ELSE c

\* str.lower()
lower(s) == [i \in DOMAIN s |-> LowerChar(s[i])]

RECURSIVE LStrip(_)
LStrip(s) == IF s # <<>> /\ Head(s) = " " THEN LStrip(Tail(s)) ELSE s

RECURSIVE RStrip(_)
RStrip(s) == IF s # <<>> /\ s[Len(s)] = " " THEN RStrip(SubSeq(s, 1, Len(s) - 1)) ELSE s

\* str.strip()
strip(s) == RStrip(LStrip(s))

IsDigit(c) == \E i \in DOMAIN Digits : Digits[i] = c
DigitVal(c) == (CHOOSE i \in DOMAIN Digits : Digits[i] = c) - 1

\* int(s) accepts an optional sign followed by decimal digits
Unsigned(s) == IF s # <<>> /\ Head(s) \in {"-", "+"} THEN Tail(s) ELSE s
IsIntLiteral(s) == LET u == Unsigned(strip(s))
                   IN  u # <<>> /\ \A i \in DOMAIN u : IsDigit(u[i])

RECURSIVE DecVal(_)
DecVal(u) == IF u = <<>> THEN 0
             ELSE DecVal(SubSeq(u, 1, Len(u) - 1)) * 10 + DigitVal(u[Len(u)])

IntVal(s) == LET t == strip(s)
             IN  IF t # <<>> /\ Head(t) = "-" THEN 0 - DecVal(Tail(t))
                 ELSE DecVal(Unsigned(t))

S_print == <<"p","r","i","n","t">>
S_digital == <<"d","i","g","i","t","a","l">>
S_one == <<"1">>

\* ----------------------------------------------------------------- state
VARIABLES
    brevo_api_key,    \* EmailService.brevo_api_key is non-empty
    sender_email,     \* EmailService.sender_email is non-empty
    api_instance,     \* EmailService.api_instance is not None
    pc,               \* position of the send_bulk request
    rows,             \* the data rows DictReader yields for csv_content
    recipients,       \* send_bulk: the list built by the first pass
    idx,              \* send_bulk_receipts: 1-based position of the for loop
    recipient_email,  \* send_bulk_receipts local, survives across iterations
    recipient_name,   \* send_bulk_receipts local, survives across iterations
    success_count,
    failed_count,
    results,
    next_uuid,        \* source of uuid.uuid4(): the next fresh value
    gatewayCalls,     \* calls made to api_instance.send_transac_email
    sent_emails,      \* committed rows of the sent_emails table
    persist_failed,   \* send_bulk logged "Failed to log bulk emails to database"
    flash,            \* the message flashed by the request
    message_id,       \* argument of extract_transaction_id
    transaction_id,   \* value returned by extract_transaction_id
    tpc,              \* position of the extract_transaction_id call
    now,              \* datetime.now(timezone.utc), in sampled instants
    view,             \* what the last audit view (list or export) answered
    api_response,     \* the JSON answer of the last /api/send-email request
    login_attempts,   \* app.login_attempts: address -> <<attempts, first_attempt>>
    session,          \* the Flask session of the browser: user id and CSRF token
    csrf_form_token,  \* request.form.get('_csrf_token') of the POST being handled
    users,            \* the users table: last_login of the administrator
    logins,           \* the login POSTs being handled: position and locals of each
    admitted,         \* how many login POSTs of an address check_rate_limit let
                      \* through at an instant: <<address, now>> -> number
    posts,            \* number of login POSTs received so far
    success           \* app_basic: the value send_single_receipt returned to the handler

vars == <<brevo_api_key, sender_email, api_instance, pc, rows, recipients, idx,
          recipient_email, recipient_name, success_count, failed_count, results,
          next_uuid, gatewayCalls, sent_emails, persist_failed, flash,
          message_id, transaction_id, tpc, now, view, api_response,
          login_attempts, session, csrf_form_token, users, logins, admitted, posts,
          success>>

bulkVars == <<pc, rows, recipients, idx, recipient_email, recipient_name,
              success_count, failed_count, results, next_uuid, gatewayCalls,
              sent_emails, persist_failed, flash>>
configVars == <<brevo_api_key, sender_email, api_instance>>
txnVars == <<message_id, transaction_id, tpc>>
appVars == <<now, view, api_response>>
loginVars == <<login_attempts, users, logins, admitted, posts>>
sessionVars == <<session, csrf_form_token>>

\* ------------------------------------------------------------ CSV inputs
\* the columns send_bulk_receipts expects, in the documented order
Cols == <<"email", "name", "purchase_date", "quantity", "edition",
          "link", "username", "password">>
ColSet == {Cols[j] : j \in DOMAIN Cols}
ColIdx(f) == CHOOSE j \in DOMAIN Cols : Cols[j] = f

\* headers of the uploaded file: every column, the three required columns
\* only, and the required columns plus edition
H_full == ColSet
H_basic == {"email", "name", "purchase_date"}
H_edition == {"email", "name", "purchase_date", "edition"}
Headers == {H_full, H_basic, H_edition}

\* position of column f among the columns of header hdr
Pos(hdr, f) == Cardinality({j \in 1..ColIdx(f) : Cols[j] \in hdr})

\* the dict csv.DictReader yields for a line holding the first n fields of v:
\* a column that is not in the header is no key of the dict, a column the line
\* is too short for is None
MkRow(hdr, n, v) ==
    [f \in ColSet |-> IF f \notin hdr THEN Missing
                      ELSE IF Pos(hdr, f) > n THEN None
                      ELSE v[f]]

V(e, n, d, q, ed, l, u, p) ==
    [email |-> e, name |-> n, purchase_date |-> d, quantity |-> q,
     edition |-> ed, link |-> l, username |-> u, password |-> p]

E == <<>>
CredSets == {<<<<"k">>, <<"k">>, <<"k">>>>, <<E, <<"k">>, <<"k">>>>,
             <<<<"k">>, <<"k">>, <<" ">>>>}

FullVals ==
         {V(<<"a">>, <<"n">>, <<"7">>, q, S_print, E, E, E) :
             q \in {<<"2">>, <<"x">>, <<"0">>}}
    \cup {V(<<"a">>, <<"n">>, <<"7">>, <<"2">>, <<"D","i","g","i","t","a","l">>,
            c[1], c[2], c[3]) : c \in CredSets}
    \cup {V(E, <<"n">>, <<"7">>, <<"2">>, S_digital, E, <<"k">>, <<"k">>),
          V(<<"a">>, <<"n">>, <<"7">>, <<"x">>, S_digital, E, <<"k">>, <<"k">>),
          V(<<"a">>, <<"n">>, <<"7">>, <<"2">>, <<" ">> \o S_digital,
            <<"k">>, <<"k">>, <<"k">>),
          V(<<"a">>, <<"n">>, <<"7">>, <<"2">>, <<"e","b","o","o","k">>,
            <<"k">>, <<"k">>, <<"k">>),
          V(<<"a">>, E, <<"7">>, <<"2">>, <<"e","b","o","o","k">>, E, E, E),
          V(<<" ","b">>, <<"m">>, <<"8">>, E, S_print, E, E, E)}

BasicVals ==
    {V(<<"a">>, <<"n">>, <<"7">>, E, E, E, E, E),
     V(<<"b">>, <<"m">>, <<"8">>, E, E, E, E, E),
     V(<<"a">>, E, <<"7">>, E, E, E, E, E)}

EditionVals ==
    {V(<<"a">>, <<"n">>, <<"7">>, E, S_print, E, E, E),
     V(<<"a">>, <<"n">>, <<"7">>, E, S_digital, E, E, E),
     V(<<"b">>, <<"m">>, <<"8">>, E, <<"e","b","o","o","k">>, E, E, E)}

\* the rows a file with header hdr may hold: complete lines and short lines
RowsOf(hdr) ==
    IF hdr = H_full
    THEN {MkRow(hdr, 8, v) : v \in FullVals}
         \cup {MkRow(hdr, 2, V(<<"a">>, <<"n">>, E, E, E, E, E, E))}
    ELSE IF hdr = H_basic
    THEN {MkRow(hdr, 3, v) : v \in BasicVals}
         \cup {MkRow(hdr, 1, V(<<"a">>, E, E, E, E, E, E, E)),
               MkRow(hdr, 1, V(<<"b">>, E, E, E, E, E, E, E)),
               MkRow(hdr, 2, V(<<"a">>, <<"n">>, E, E, E, E, E, E))}
    ELSE {MkRow(hdr, 4, v) : v \in EditionVals}
         \cup {MkRow(hdr, 3, V(<<"b">>, <<"m">>, <<"8">>, E, E, E, E, E))}

\* dict.get(key, default)
Get(row, f, default) == IF row[f] = Missing THEN default ELSE row[f]

\* ------------------------------------------ EmailService.send_bulk_receipts
\* the normalisation as it would be without the coercion to 'print'
ServiceEdition_NoCoercion(raw) == strip(lower(raw))

\* edition = row.get('edition', 'print').lower().strip(), coerced to 'print'
ServiceEdition(raw) ==
    LET ed == strip(lower(raw))
    IN  IF ed \notin {S_digital, S_print} THEN S_print ELSE ed

\* the statement of the try body that raises for this row, 0 when none does:
\* None has no strip()/lower(), int() rejects a text that is no integer
RaiseStage(row) ==
    LET q == Get(row, "quantity", S_one)
        ed == Get(row, "edition", S_print)
    IN  IF Get(row, "email", E) = None THEN 1
        ELSE IF Get(row, "name", E) = None THEN 2
        ELSE IF Get(row, "purchase_date", E) = None THEN 3
        ELSE IF q = None THEN 4
        ELSE IF ~IsIntLiteral(IF strip(q) = E THEN S_one ELSE strip(q)) THEN 4
        ELSE IF ed = None THEN 5
        ELSE IF ServiceEdition(ed) # S_digital THEN 0
        ELSE IF Get(row, "link", E) = None THEN 6
        ELSE IF Get(row, "username", E) = None THEN 7
        ELSE IF Get(row, "password", E) = None THEN 8
        ELSE 0

\* the row as the try body parses it when no statement raises
ParseRow(row) ==
    LET q == strip(Get(row, "quantity", S_one))
        ed == ServiceEdition(Get(row, "edition", S_print))
    IN  [recipient_email |-> strip(Get(row, "email", E)),
         recipient_name |-> strip(Get(row, "name", E)),
         purchase_date |-> strip(Get(row, "purchase_date", E)),
         quantity |-> IntVal(IF q = E THEN S_one ELSE q),
         edition |-> ed,
         digital_link |-> IF ed = S_digital THEN strip(Get(row, "link", E)) ELSE None,
         digital_username |-> IF ed = S_digital THEN strip(Get(row, "username", E)) ELSE None,
         digital_password |-> IF ed = S_digital THEN strip(Get(row, "password", E)) ELSE None]

\* Python truthiness of an optional string
Truthy(s) == s # None /\ s # E

\* not all([recipient_email, recipient_name, purchase_date])
MissingRequired(p) ==
    ~(Truthy(p.recipient_email) /\ Truthy(p.recipient_name) /\ Truthy(p.purchase_date))

\* the credentials check as it would be if it forgot the password
MissingCredentials_IgnoresPassword(p) ==
    /\ p.edition = S_digital
    /\ ~(Truthy(p.digital_link) /\ Truthy(p.digital_username))

\* edition == 'digital' and not all([digital_link, digital_username, digital_password])
MissingCredentials(p) ==
    /\ p.edition = S_digital
    /\ ~(Truthy(p.digital_link) /\ Truthy(p.digital_username) /\ Truthy(p.digital_password))

ERR_REQUIRED == "Missing required fields"
ERR_CREDENTIALS == "Missing digital access credentials"
ERR_ROW == "Error processing row"
ERR_NOT_INIT == "Brevo client not initialized. Check API key."
ERR_API == "Brevo API Exception"
ERR_SEND == "Failed to send email"

Outcome(e, n, ok, mid, err) ==
    [recipient_email |-> e, recipient_name |-> n, success |-> ok,
     message_id |-> mid, error_message |-> err]

\* ------------------------------------------------------------ the gateway
\* EmailService.is_configured
is_configured == brevo_api_key /\ sender_email

\* EmailService.create_receipt_email: the template chosen and the values
\* handed to render_template
create_receipt_email(name, date, quantity, txn, edition, link, username, password) ==
    [template |-> IF edition # None /\ edition # E /\ lower(edition) = S_digital
                  THEN "email_receipt_digital.html"
                  ELSE "email_receipt_print.html",
     recipient_name |-> name,
     purchase_date |-> date,
     quantity |-> quantity,
     transaction_id |-> IF Truthy(txn) THEN txn ELSE <<"N", "/", "A">>,
     edition |-> IF Truthy(edition) THEN edition ELSE S_print,
     digital_link |-> IF Truthy(link) THEN link ELSE E,
     digital_username |-> IF Truthy(username) THEN username ELSE E,
     digital_password |-> IF Truthy(password) THEN password ELSE E]

\* message ids the remote API answers with in a bulk send
M_shaped == <<"<", "A", "@", "h", ">">>
BulkMessageIds == {M_shaped}

\* what send_email returns once send_transac_email was called: the response's
\* message_id, an ApiException, or any other exception
GatewayResponses ==
    {[success |-> TRUE, message_id |-> m, error_message |-> NoError] : m \in BulkMessageIds}
    \cup {[success |-> FALSE, message_id |-> None, error_message |-> ERR_API],
          [success |-> FALSE, message_id |-> None, error_message |-> ERR_SEND]}

\* send_email reaches send_transac_email only with an initialised client
CallsRemote == api_instance

NotInitialised == [success |-> FALSE, message_id |-> None, error_message |-> ERR_NOT_INIT]

\* transaction_id = f"SNX-{uuid.uuid4().hex[:12].upper()}" for the n-th uuid
SnxTransactionId(n) == <<"S", "N", "X", "-", Digits[n + 1]>>

\* the call as it would be if send_email tried a second time
SendTransacEmail_Twice(calls, call) == Append(Append(calls, call), call)

\* one call of api_instance.send_transac_email (email_service.py line 110)
SendTransacEmail(calls, call) == Append(calls, call)

\* ------------------------------------------------ app.extract_transaction_id
startswith(s, c) == s # <<>> /\ Head(s) = c
Contains(s, c) == \E i \in DOMAIN s : s[i] = c

\* the split as it would be if it cut at the last c (rsplit)
RECURSIVE SplitFirst_AtLast(_, _)
SplitFirst_AtLast(s, c) ==
    IF s = <<>> THEN <<>>
    ELSE IF s[Len(s)] = c THEN SubSeq(s, 1, Len(s) - 1)
    ELSE SplitFirst_AtLast(SubSeq(s, 1, Len(s) - 1), c)

\* s.split(c)[0]: the part of s before the first c, all of s when c is not in s
RECURSIVE SplitFirst(_, _)
SplitFirst(s, c) == IF s = <<>> \/ Head(s) = c THEN <<>>
                    ELSE <<Head(s)>> \o SplitFirst(Tail(s), c)

\* the derivation as it would be without the startswith('<') test
extract_transaction_id_AnyAt(m) ==
    IF ~Truthy(m) THEN None
    ELSE IF Contains(m, "@") THEN SplitFirst(Tail(m), "@")
    ELSE m

extract_transaction_id(m) ==
    IF ~Truthy(m) THEN None
    ELSE IF startswith(m, "<") /\ Contains(m, "@") THEN SplitFirst(Tail(m), "@")
    ELSE m

\* ------------------------------------------------------------ app.send_bulk
\* edition = row.get('edition', 'print').lower(), coerced to 'print'
RouteEdition(raw) ==
    LET ed == lower(raw)
    IN  IF ed \notin {S_digital, S_print} THEN S_print ELSE ed

\* row.get(key) without a default
GetOrNone(row, f) == IF row[f] = Missing THEN None ELSE row[f]

\* recipient_data of the first pass over the file
RouteParse(row) ==
    LET ed == RouteEdition(Get(row, "edition", S_print))
    IN  [email |-> GetOrNone(row, "email"),
         name |-> GetOrNone(row, "name"),
         purchase_date |-> GetOrNone(row, "purchase_date"),
         edition |-> ed,
         digital_link |-> IF ed = S_digital THEN Get(row, "link", E) ELSE None,
         digital_username |-> IF ed = S_digital THEN Get(row, "username", E) ELSE None,
         digital_password |-> IF ed = S_digital THEN Get(row, "password", E) ELSE None]

\* None.lower() raises in the first pass
RouteParseRaises(row) == Get(row, "edition", S_print) = None

Flash(text, sent, failed) == [text |-> text, sent |-> sent, failed |-> failed]
NoFlash == Flash("", 0, 0)

FLASH_DONE == "Bulk email completed"
FLASH_ERROR == "Error processing file. Please check the format."

\* datetime.now(timezone.utc).strftime('%Y-%m-%d'), the purchase_date of a
\* result that has no recipient_data
S_today == <<"t","o","d","a","y">>

\* current_user.id
CurrentUser == 1

\* the SentEmail built for results[i] (send_bulk lines 464-485), stored after
\* the base rows already in the table
SentEmail(i, base) ==
    LET r == results[i]
        has == i <= Len(recipients)
    IN  [id |-> base + i,
         user_id |-> CurrentUser,
         recipient_email |-> r.recipient_email,
         recipient_name |-> r.recipient_name,
         purchase_date |-> IF has THEN recipients[i].purchase_date ELSE S_today,
         edition |-> IF has THEN recipients[i].edition ELSE S_print,
         digital_link |-> IF has THEN recipients[i].digital_link ELSE None,
         digital_username |-> IF has THEN recipients[i].digital_username ELSE None,
         digital_password |-> IF has THEN recipients[i].digital_password ELSE None,
         sent_at |-> now,
         transaction_id |-> extract_transaction_id(r.message_id),
         message_id |-> r.message_id,
         status |-> IF r.success THEN "success" ELSE "failed",
         error_message |-> r.error_message]

\* the nullable=False columns of SentEmail that the route can leave None
ViolatesNotNull(rec) ==
    rec.recipient_email = None \/ rec.recipient_name = None \/ rec.purchase_date = None

\* the commit as it would be if it replaced the table by the session's rows
Commit_Replacing(table, recs) == recs

\* db.session.add(...) for every row of recs, then db.session.commit()
Commit(table, recs) == table \o recs

\* --------------------------------------------------------- CSRF protection
\* values of secrets.token_hex(32): the token of the session and another one
Token1 == <<"t">>
Token2 == <<"u">>

\* no POST to a csrf-protected route is being handled
NoPost == <<"NoPost">>

\* the _csrf_token field of a posted form: absent, empty, the session's token
\* or another token
FormTokens == {None, E, Token1, Token2}

Session(user_id, token) == [user_id |-> user_id, csrf_token |-> token]

\* the session of a browser that is logged in and has rendered a form
SignedIn == Session(CurrentUser, Token1)

\* the validation as it would be if it accepted every token
validate_csrf_token_Any(token) == TRUE

\* validate_csrf_token: token == session.get('_csrf_token')
validate_csrf_token(token) == token = session.csrf_token

FLASH_CSRF == "Invalid security token. Please try again."

\* csrf_protect(f) on a POST (lines 204-219): the handler f runs only when the
\* form carries the token of the session, otherwise the request is answered
\* with the flashed error and a redirect
csrf_protect(f) ==
    \E token \in FormTokens :
        /\ csrf_form_token' = token
        /\ IF ~Truthy(token) \/ ~validate_csrf_token(token)
           THEN /\ pc = "idle"
                /\ pc' = "done"
                /\ flash' = Flash(FLASH_CSRF, 0, 0)
                /\ UNCHANGED <<rows, recipients, idx, recipient_email, recipient_name,
                               success_count, failed_count, results, next_uuid,
                               gatewayCalls, sent_emails, persist_failed>>
                /\ UNCHANGED <<configVars, txnVars, appVars, loginVars, session, success>>
           ELSE f

UploadKinds == {"ok", "no_file", "no_name", "not_csv", "too_large"}

UploadFlash(kind) ==
    IF kind = "no_file" THEN "No file uploaded"
    ELSE IF kind = "no_name" THEN "No file selected"
    ELSE IF kind = "not_csv" THEN "Only CSV files are allowed"
    ELSE "CSV file is too large (max 1MB)"

\* POST /send-bulk up to the call of send_bulk_receipts (lines 408-459), for
\* a file with one of the headers hdrs and at most maxn data rows
UploadOf(hdrs, maxn) ==
    /\ pc = "idle"
    /\ \E kind \in UploadKinds :
         IF kind # "ok"
         THEN /\ pc' = "done"
              /\ flash' = Flash(UploadFlash(kind), 0, 0)
              /\ UNCHANGED <<rows, recipients>>
         ELSE \E hdr \in hdrs : \E n \in 0..maxn : \E rs \in [1..n -> RowsOf(hdr)] :
              /\ rows' = rs
              /\ IF \E i \in 1..n : RouteParseRaises(rs[i])
                 THEN /\ pc' = "done"
                      /\ flash' = Flash(FLASH_ERROR, 0, 0)
                      /\ UNCHANGED recipients
                 ELSE /\ pc' = "service"
                      /\ recipients' = [i \in 1..n |-> RouteParse(rs[i])]
                      /\ UNCHANGED flash
    /\ UNCHANGED <<idx, recipient_email, recipient_name, success_count, failed_count,
                   results, next_uuid, gatewayCalls, sent_emails, persist_failed>>
    /\ UNCHANGED <<configVars, txnVars, appVars, loginVars, session, success>>

Upload == csrf_protect(UploadOf(Headers, MaxRows))

\* one iteration of the for loop of send_bulk_receipts (lines 152-207)
ProcessRow ==
    /\ pc = "service"
    /\ idx <= Len(rows)
    /\ LET row == rows[idx]
           st == RaiseStage(row)
           p == ParseRow(row)
           em == IF st = 1 THEN recipient_email ELSE strip(Get(row, "email", E))
           nm == IF st \in {1, 2} THEN recipient_name ELSE strip(Get(row, "name", E))
           failure(msg) == Outcome(em, nm, FALSE, None, msg)
       IN  /\ recipient_email' = em
           /\ recipient_name' = nm
           /\ IF st # 0
              THEN IF em = Unbound \/ nm = Unbound
                   THEN \* the except clause reads an unassigned local: the
                        \* UnboundLocalError leaves send_bulk_receipts and
                        \* send_bulk's own except clause flashes the error
                        /\ pc' = "done"
                        /\ flash' = Flash(FLASH_ERROR, 0, 0)
                        /\ UNCHANGED <<idx, success_count, failed_count, results,
                                       next_uuid, gatewayCalls>>
                   ELSE /\ failed_count' = failed_count + 1
                        /\ results' = Append(Append(results, failure(ERR_ROW)), failure(ERR_ROW))
                        /\ idx' = idx + 1
                        /\ UNCHANGED <<pc, flash, success_count, next_uuid, gatewayCalls>>
              ELSE IF MissingRequired(p)
              THEN /\ failed_count' = failed_count + 1
                   /\ results' = Append(results, failure(ERR_REQUIRED))
                   /\ idx' = idx + 1
                   /\ UNCHANGED <<pc, flash, success_count, next_uuid, gatewayCalls>>
              ELSE IF MissingCredentials(p)
              THEN /\ failed_count' = failed_count + 1
                   /\ results' = Append(results, failure(ERR_CREDENTIALS))
                   /\ idx' = idx + 1
                   /\ UNCHANGED <<pc, flash, success_count, next_uuid, gatewayCalls>>
              ELSE /\ next_uuid' = next_uuid + 1
                   /\ \E resp \in (IF CallsRemote THEN GatewayResponses ELSE {NotInitialised}) :
                        /\ gatewayCalls' =
                             IF CallsRemote
                             THEN SendTransacEmail(gatewayCalls,
                                    [row |-> idx, to |-> em,
                                     content |-> create_receipt_email(nm, p.purchase_date,
                                         p.quantity, SnxTransactionId(next_uuid), p.edition, p.digital_link,
                                         p.digital_username, p.digital_password)])
                             ELSE gatewayCalls
                        /\ results' = Append(results,
                               Outcome(em, nm, resp.success, resp.message_id, resp.error_message))
                        /\ IF resp.success
                           THEN success_count' = success_count + 1 /\ UNCHANGED failed_count
                           ELSE failed_count' = failed_count + 1 /\ UNCHANGED success_count
                   /\ idx' = idx + 1
                   /\ UNCHANGED <<pc, flash>>
    /\ UNCHANGED <<rows, recipients, sent_emails, persist_failed>>
    /\ UNCHANGED <<configVars, txnVars, appVars, loginVars, sessionVars, success>>

\* the loop is over: send_bulk_receipts returns its summary (lines 209-211)
ReturnSummary ==
    /\ pc = "service"
    /\ idx > Len(rows)
    /\ pc' = "persist"
    /\ UNCHANGED <<rows, recipients, idx, recipient_email, recipient_name, success_count,
                   failed_count, results, next_uuid, gatewayCalls, sent_emails,
                   persist_failed, flash>>
    /\ UNCHANGED <<configVars, txnVars, appVars, loginVars, sessionVars, success>>

\* send_bulk logs every outcome and flashes the summary (lines 461-501): one
\* commit for the whole batch, rolled back when the database refuses it
PersistBulk ==
    /\ pc = "persist"
    /\ \E db_ok \in BOOLEAN :
         LET base == Len(sent_emails)
             recs == [i \in 1..Len(results) |-> SentEmail(i, base)]
         IN  IF db_ok /\ \A i \in 1..Len(results) : ~ViolatesNotNull(recs[i])
             THEN /\ sent_emails' = Commit(sent_emails, recs)
                  /\ persist_failed' = FALSE
             ELSE /\ persist_failed' = TRUE
                  /\ UNCHANGED sent_emails
    /\ flash' = Flash(FLASH_DONE, success_count, failed_count)
    /\ pc' = "done"
    /\ UNCHANGED <<rows, recipients, idx, recipient_email, recipient_name, success_count,
                   failed_count, results, next_uuid, gatewayCalls>>
    /\ UNCHANGED <<configVars, txnVars, appVars, loginVars, sessionVars, success>>

\* the call transaction_id = extract_transaction_id(message_id)
ExtractTransactionId ==
    /\ tpc = "call"
    /\ transaction_id' = extract_transaction_id(message_id)
    /\ tpc' = "returned"
    /\ UNCHANGED <<message_id, bulkVars, configVars, appVars, loginVars, sessionVars,
                   success>>

\* --------------------------------------------------------------- the clock
\* sent_at is counted in half seconds; the clock is sampled at two instants
\* of every day, 12:00:00 and 23:59:59.5
HalfSecondsPerDay == 172800
Noon == 86400
LastHalfSecond == 172799

\* the k-th sampled instant
Instant(k) == (k \div 2) * HalfSecondsPerDay + (IF k % 2 = 0 THEN Noon ELSE LastHalfSecond)

Instants == {Instant(k) : k \in 0..MaxTime}

\* ------------------------------------------------- validation of the inputs
Letters == {UpperCase[i] : i \in DOMAIN UpperCase} \cup {LowerCase[i] : i \in DOMAIN LowerCase}
DigitChars == {Digits[i] : i \in DOMAIN Digits}
LocalChars == Letters \cup DigitChars \cup {".", "_", "%", "+", "-"}
DomainChars == Letters \cup DigitChars \cup {".", "-"}

\* the pattern ^[a-zA-Z0-9._%+-]+@[a-zA-Z0-9.-]+\.[a-zA-Z]{2,} up to the end of s
MatchesEmailPattern(s) ==
    \E a \in DOMAIN s : \E d \in DOMAIN s :
        /\ a > 1
        /\ s[a] = "@"
        /\ d > a + 1
        /\ s[d] = "."
        /\ Len(s) - d >= 2
        /\ \A i \in 1..(a - 1) : s[i] \in LocalChars
        /\ \A i \in (a + 1)..(d - 1) : s[i] \in DomainChars
        /\ \A i \in (d + 1)..Len(s) : s[i] \in Letters

\* re.match(pattern, email) is not None: '$' also matches before a final newline
validate_email(s) ==
    \/ MatchesEmailPattern(s)
    \/ s # <<>> /\ s[Len(s)] = "\n" /\ MatchesEmailPattern(SubSeq(s, 1, Len(s) - 1))

MaxInputLength == 500

\* sanitize_input(text): '' for an empty text, else text.strip()[:max_length]
sanitize_input(text) ==
    IF ~Truthy(text) THEN E
    ELSE LET t == strip(text)
         IN  SubSeq(t, 1, IF Len(t) < MaxInputLength THEN Len(t) ELSE MaxInputLength)

\* ------------------------------------------------------- the sent_emails table
\* the SentEmail built by send_single (lines 363-377) and by api_send_email
\* (lines 733-747)
SingleSentEmail(base, email, name, date, edition, link, username, password, resp) ==
    [id |-> base + 1,
     user_id |-> CurrentUser,
     recipient_email |-> email,
     recipient_name |-> name,
     purchase_date |-> date,
     edition |-> edition,
     digital_link |-> link,
     digital_username |-> username,
     digital_password |-> password,
     sent_at |-> now,
     transaction_id |-> extract_transaction_id(resp.message_id),
     message_id |-> resp.message_id,
     status |-> IF resp.success THEN "success" ELSE "failed",
     error_message |-> resp.error_message]

\* send_single_receipt(recipient_email, recipient_name, magazine_name,
\* purchase_amount, purchase_date) as send_single and api_send_email call it:
\* quantity, transaction_id, edition and the digital values keep their defaults
SingleCall(email, name, date) ==
    [row |-> 0, to |-> email,
     content |-> create_receipt_email(name, date, 1, None, None, None, None, None)]

\* ------------------------------------------------------------ app.send_single
S_addr == <<"a", "@", "b", ".", "c", "d">>

Form(e, n, d, ed, l, u, p) ==
    [email |-> e, name |-> n, purchase_date |-> d, edition |-> ed,
     digital_link |-> l, digital_username |-> u, digital_password |-> p]

\* the forms posted to /send-single (request.form.get(key, '') is '' for a
\* field that was not posted)
FormInputs ==
    {Form(S_addr, <<"n">>, <<"7">>, S_print, E, E, E),
     Form(S_addr, <<"n">>, <<"7">>, S_digital, <<"k">>, <<"k">>, <<"k">>),
     Form(S_addr, <<"n">>, <<"7">>, S_digital, <<"k">>, <<"k">>, E),
     Form(S_addr, <<"n">>, <<"7">>, <<"D","i","g","i","t","a","l">>, <<"k">>, <<"k">>, <<"k">>),
     Form(S_addr, E, <<"7">>, S_print, E, E, E),
     Form(<<"a">>, <<"n">>, <<"7">>, S_print, E, E, E),
     Form(<<" ">> \o S_addr, <<"n">>, <<"7">>, S_digital \o <<" ">>, <<"k">>, <<"k">>, <<"k">>)}

FLASH_REQUIRED == "All required fields must be filled"
FLASH_EDITION == "Invalid edition type"
FLASH_CREDENTIALS == "Digital edition requires link, username, and password"
FLASH_EMAIL == "Invalid email address format"
FLASH_SENT == "Email successfully sent"
FLASH_NOT_SENT == "Failed to send email. Please check your configuration."

\* POST /send-single (lines 304-399)
SendSingle ==
    /\ pc = "idle"
    /\ \E form \in FormInputs :
         LET email == sanitize_input(form.email)
             name == sanitize_input(form.name)
             date == sanitize_input(form.purchase_date)
             edition == sanitize_input(form.edition)
             link == IF edition = S_digital THEN sanitize_input(form.digital_link) ELSE None
             username == IF edition = S_digital THEN sanitize_input(form.digital_username) ELSE None
             password == IF edition = S_digital THEN sanitize_input(form.digital_password) ELSE None
             rejected(text) ==
                 /\ flash' = Flash(text, 0, 0)
                 /\ UNCHANGED <<gatewayCalls, sent_emails, persist_failed>>
         IN  IF ~(Truthy(email) /\ Truthy(name) /\ Truthy(date) /\ Truthy(edition))
             THEN rejected(FLASH_REQUIRED)
             ELSE IF edition \notin {S_digital, S_print}
             THEN rejected(FLASH_EDITION)
             ELSE IF edition = S_digital
                     /\ ~(Truthy(link) /\ Truthy(username) /\ Truthy(password))
             THEN rejected(FLASH_CREDENTIALS)
             ELSE IF ~validate_email(email)
             THEN rejected(FLASH_EMAIL)
             ELSE \E resp \in (IF CallsRemote THEN GatewayResponses ELSE {NotInitialised}) :
                  \E db_ok \in BOOLEAN :
                     /\ gatewayCalls' =
                          IF CallsRemote
                          THEN SendTransacEmail(gatewayCalls, SingleCall(email, name, date))
                          ELSE gatewayCalls
                     /\ IF db_ok
                        THEN /\ sent_emails' = Commit(sent_emails,
                                   <<SingleSentEmail(Len(sent_emails), email, name, date,
                                                     edition, link, username, password, resp)>>)
                             /\ persist_failed' = FALSE
                        ELSE /\ persist_failed' = TRUE
                             /\ UNCHANGED sent_emails
                     /\ flash' = Flash(IF resp.success THEN FLASH_SENT ELSE FLASH_NOT_SENT, 0, 0)
    /\ UNCHANGED <<pc, rows, recipients, idx, recipient_email, recipient_name,
                   success_count, failed_count, results, next_uuid>>
    /\ UNCHANGED <<configVars, txnVars, appVars, loginVars, session, success>>

\* --------------------------------------------------------- app.api_send_email
\* the JSON bodies posted to /api/send-email: a key that is not in the body
\* is Missing, a JSON null is None
JsonInputs ==
    {Form(S_addr, <<"n">>, <<"7">>, S_print, Missing, Missing, Missing),
     Form(S_addr, <<"n">>, <<"7">>, <<"D","i","g","i","t","a","l">>, <<"k">>, <<"k">>, <<"k">>),
     Form(S_addr, <<"n">>, <<"7">>, S_digital, <<"k">>, <<"k">>, Missing),
     Form(S_addr, <<"n">>, <<"7">>, S_digital, <<"k">>, <<"k">>, E),
     Form(S_addr, Missing, <<"7">>, S_print, Missing, Missing, Missing),
     Form(<<"a">>, <<"n">>, <<"7">>, S_print, Missing, Missing, Missing),
     Form(S_addr, <<"n">>, <<"7">>, <<"e","b","o","o","k">>, Missing, Missing, Missing),
     Form(S_addr, <<"n">>, <<"7">>, None, Missing, Missing, Missing)}

Response(status, body) == [status |-> status, body |-> body]
NoResponse == Response(0, "")

\* POST /api/send-email (lines 686-762); has_data is false when get_json()
\* gives None or an empty object
ApiSendEmail ==
    /\ pc = "idle"
    /\ \E has_data \in BOOLEAN : \E data \in JsonInputs :
         LET refused(status, body) ==
                 /\ api_response' = Response(status, body)
                 /\ UNCHANGED <<gatewayCalls, sent_emails, persist_failed>>
         IN  IF ~has_data
             THEN refused(400, "Invalid JSON")
             ELSE IF \E f \in {"email", "name", "purchase_date", "edition"} : data[f] = Missing
             THEN refused(400, "Missing required fields")
             ELSE IF data.edition = None
             THEN refused(500, "Internal server error")
             ELSE LET edition == lower(data.edition)
                      digital == edition = S_digital
                      email == sanitize_input(data.email)
                      name == sanitize_input(data.name)
                      date == sanitize_input(data.purchase_date)
                      link == IF digital THEN sanitize_input(Get(data, "digital_link", E)) ELSE None
                      username == IF digital THEN sanitize_input(Get(data, "digital_username", E)) ELSE None
                      password == IF digital THEN sanitize_input(Get(data, "digital_password", E)) ELSE None
                  IN  IF edition \notin {S_digital, S_print}
                      THEN refused(400, "Invalid edition type")
                      ELSE IF digital /\ \E f \in {"digital_link", "digital_username",
                                                  "digital_password"} : data[f] = Missing
                      THEN refused(400, "Digital edition requires link, username, and password")
                      ELSE IF ~validate_email(data.email)
                      THEN refused(400, "Invalid email format")
                      ELSE \E resp \in (IF CallsRemote THEN GatewayResponses ELSE {NotInitialised}) :
                           \E db_ok \in BOOLEAN :
                              /\ gatewayCalls' =
                                   IF CallsRemote
                                   THEN SendTransacEmail(gatewayCalls, SingleCall(email, name, date))
                                   ELSE gatewayCalls
                              /\ IF db_ok
                                 THEN /\ sent_emails' = Commit(sent_emails,
                                            <<SingleSentEmail(Len(sent_emails), email, name, date,
                                                  edition, link, username, password, resp)>>)
                                      /\ persist_failed' = FALSE
                                 ELSE /\ persist_failed' = TRUE
                                      /\ UNCHANGED sent_emails
                              /\ api_response' =
                                   IF resp.success THEN Response(200, "Email sent successfully")
                                   ELSE Response(500, "Failed to send email")
    /\ UNCHANGED <<pc, rows, recipients, idx, recipient_email, recipient_name,
                   success_count, failed_count, results, next_uuid, flash>>
    /\ UNCHANGED <<configVars, txnVars, now, view, loginVars, sessionVars, success>>

\* ------------------------------------------------------------ audit views
\* the query string of /sent-emails and /sent-emails/export
Filter(status, from, to, search) ==
    [status |-> status, date_from |-> from, date_to |-> to, search |-> search]

NoFilter == Filter("", E, E, E)

\* dates are written as the number of the day; 'x' is no date
Filters ==
    {Filter(st, f, t, q) : st \in {"", "failed"}, f \in {E, <<"1">>},
                           t \in {E, <<"0">>}, q \in {E, <<"N">>}}
    \cup {Filter("success", E, <<"x">>, E)}

\* datetime.strptime(text, '%Y-%m-%d') raises ValueError
IsDate(text) == text # E /\ \A i \in DOMAIN text : IsDigit(text[i])

\* datetime.strptime(date_from, '%Y-%m-%d'): 00:00:00 of the day
DateFromObj(text) == DecVal(text) * HalfSecondsPerDay

\* datetime.strptime(date_to, '%Y-%m-%d').replace(hour=23, minute=59, second=59)
DateToObj(text) == DecVal(text) * HalfSecondsPerDay + 2 * (23 * 3600 + 59 * 60 + 59)

\* column.ilike('%' + search + '%'): search occurs in text, letter case ignored
ILike(text, search) ==
    \E off \in 0..(Len(text) - Len(search)) :
        \A i \in DOMAIN search : LowerChar(text[off + i]) = LowerChar(search[i])

\* the status filter as it would be if it were not applied
StatusMatches_Ignored(rec, status) == TRUE

\* query.filter(SentEmail.status == status_filter) when status_filter is given
StatusMatches(rec, status) == status = "" \/ rec.status = status

\* the date filters; a text that is no date leaves the query unfiltered
DateMatches(rec, f) ==
    /\ (f.date_from # E /\ IsDate(f.date_from)) => rec.sent_at >= DateFromObj(f.date_from)
    /\ (f.date_to # E /\ IsDate(f.date_to)) => rec.sent_at <= DateToObj(f.date_to)

SearchMatches(rec, search) ==
    search = E \/ ILike(rec.recipient_email, search) \/ ILike(rec.recipient_name, search)

\* the ids of the rows the filtered query selects
Matching(table, f) ==
    {k \in DOMAIN table : /\ StatusMatches(table[k], f.status)
                          /\ DateMatches(table[k], f)
                          /\ SearchMatches(table[k], f.search)}

\* the order as it would be with order_by(SentEmail.sent_at.asc())
RECURSIVE Orderings_Ascending(_, _)
Orderings_Ascending(table, S) ==
    IF S = {} THEN {<<>>}
    ELSE UNION {{<<k>> \o o : o \in Orderings_Ascending(table, S \ {k})} :
                    k \in {j \in S : \A h \in S : table[j].sent_at <= table[h].sent_at}}

\* order_by(SentEmail.sent_at.desc()): the orders the database may return the
\* rows S in; rows with the same sent_at come in an order the query leaves open
RECURSIVE Orderings(_, _)
Orderings(table, S) ==
    IF S = {} THEN {<<>>}
    ELSE UNION {{<<k>> \o o : o \in Orderings(table, S \ {k})} :
                    k \in {j \in S : \A h \in S : table[j].sent_at >= table[h].sent_at}}

\* sent_at.strftime('%Y-%m-%d %H:%M:%S'): the day and the second of the day
SentAtText(t) == <<t \div HalfSecondsPerDay, (t % HalfSecondsPerDay) \div 2>>

\* self.sender.username: the only user is the default administrator
UsernameOf(user_id) == "admin"

OrEmpty(x) == IF x = None THEN E ELSE x

\* SentEmail.to_dict (models.py lines 60-76)
to_dict(rec) ==
    [id |-> rec.id,
     recipient_email |-> rec.recipient_email,
     recipient_name |-> rec.recipient_name,
     purchase_date |-> rec.purchase_date,
     edition |-> rec.edition,
     digital_link |-> OrEmpty(rec.digital_link),
     digital_username |-> OrEmpty(rec.digital_username),
     digital_password |-> OrEmpty(rec.digital_password),
     sent_at |-> SentAtText(rec.sent_at),
     transaction_id |-> OrEmpty(rec.transaction_id),
     status |-> rec.status,
     error_message |-> IF rec.error_message = NoError THEN "" ELSE rec.error_message,
     sent_by |-> UsernameOf(rec.user_id)]

ExportHeader ==
    <<"ID", "Recipient Email", "Recipient Name", "Purchase Date", "Edition",
      "Transaction ID", "Sent At", "Status", "Error Message", "Sent By",
      "Digital Link", "Digital Username", "Digital Password">>

\* one data row of the CSV (lines 626-642)
CsvRow(rec) ==
    LET d == to_dict(rec)
    IN  <<d.id, d.recipient_email, d.recipient_name, d.purchase_date, d.edition,
          d.transaction_id, d.sent_at, d.status, d.error_message, d.sent_by,
          d.digital_link, d.digital_username, d.digital_password>>

View(kind, f, page, header, body) ==
    [kind |-> kind, filters |-> f, page |-> page, header |-> header, rows |-> body]

NoView == View("none", NoFilter, 0, <<>>, <<>>)

\* GET /sent-emails/export (lines 568-660) with one of the query strings fs
ExportWith(fs) ==
    /\ pc = "idle"
    /\ \E f \in fs : \E emails \in Orderings(sent_emails, Matching(sent_emails, f)) :
         view' = View("export", f, 0, ExportHeader,
                      [i \in DOMAIN emails |-> CsvRow(sent_emails[emails[i]])])
    /\ UNCHANGED <<now, api_response, bulkVars, configVars, txnVars, loginVars,
                   sessionVars, success>>

ExportSentEmails == ExportWith(Filters)

PerPageDefault == 20

FLASH_DATE_FROM == "Invalid date format for date_from"
FLASH_DATE_TO == "Invalid date format for date_to"

\* GET /sent-emails (lines 505-566) with one of the query strings fs: the
\* items of the requested page
ListWith(fs) ==
    /\ pc = "idle"
    /\ \E f \in fs : \E page \in {1, 2} :
       \E emails \in Orderings(sent_emails, Matching(sent_emails, f)) :
         LET first == (page - 1) * PerPageDefault + 1
             last == IF Len(emails) < page * PerPageDefault THEN Len(emails)
                     ELSE page * PerPageDefault
         IN  /\ view' = View("list", f, page, <<>>,
                             [i \in 1..(last - first + 1) |-> sent_emails[emails[first + i - 1]]])
             /\ flash' = IF f.date_to # E /\ ~IsDate(f.date_to) THEN Flash(FLASH_DATE_TO, 0, 0)
                         ELSE IF f.date_from # E /\ ~IsDate(f.date_from)
                         THEN Flash(FLASH_DATE_FROM, 0, 0)
                         ELSE flash
    /\ UNCHANGED <<pc, rows, recipients, idx, recipient_email, recipient_name, success_count,
                   failed_count, results, next_uuid, gatewayCalls, sent_emails, persist_failed>>
    /\ UNCHANGED <<now, api_response, configVars, txnVars, loginVars, sessionVars,
                   success>>

\* ------------------------------------------------------ the login route
RATE_LIMIT_ATTEMPTS == 5
\* RATE_LIMIT_WINDOW, in seconds
RATE_LIMIT_WINDOW == 300

\* the caller addresses (request.remote_addr)
FirstAddress == "10.0.0.1"
OtherAddress == "10.0.0.2"
Addresses == {FirstAddress, OtherAddress}

\* the instants, in half seconds, at which the clock is read by the login
\* route: noon, then 300 s, 300.5 s and 1 day 10 s later
LoginInstants == {Noon + d : d \in {0, 600, 601, 172820}}

\* login_attempts = {}
NoAttempts == [a \in {} |-> <<0, 0>>]

\* login_attempts[ip_address] = entry
SetAttempts(table, ip, entry) ==
    [a \in DOMAIN table \cup {ip} |-> IF a = ip THEN entry ELSE table[a]]

\* reset_rate_limit(ip_address): del login_attempts[ip_address] when present
reset_rate_limit(table, ip) == [a \in DOMAIN table \ {ip} |-> table[a]]

\* timedelta.seconds of a difference d of two instants: the whole seconds of
\* the part of d that is left once the whole days are taken out
TimedeltaSeconds(d) == (d % HalfSecondsPerDay) \div 2

\* (now - first_attempt).seconds > RATE_LIMIT_WINDOW
WindowPassed(entry, t) == TimedeltaSeconds(t - entry[2]) > RATE_LIMIT_WINDOW

\* the test as it would be if no address were ever blocked
Blocked_Never(entry) == FALSE

\* attempts >= RATE_LIMIT_ATTEMPTS
Blocked(entry) == entry[1] >= RATE_LIMIT_ATTEMPTS

\* users.last_login is NULL
NullTime == 0 - 1

\* the _csrf_token field of a posted login form
LoginTokens == {None, Token1}

\* a login POST: its position in the handler, its inputs (address, whether
\* the credentials are those of an active user, CSRF field) and the locals of
\* check_rate_limit (now, and the entry read from login_attempts)
Login(at, ip, valid, token, t, entry, status) ==
    [pc |-> at, ip |-> ip, valid |-> valid, token |-> token, now |-> t,
     entry |-> entry, status |-> status]

IdleLogin == Login("idle", "", FALSE, None, 0, <<>>, 0)

Threads == 1..MaxThreads

InitLoginState ==
    /\ login_attempts = NoAttempts
    /\ users = [last_login |-> NullTime]
    /\ logins = [t \in Threads |-> IdleLogin]
    /\ admitted = [k \in Addresses \X LoginInstants |-> 0]
    /\ posts = 0

loginFrame == <<bulkVars, configVars, txnVars, view, api_response, csrf_form_token, success>>

\* POST /login arrives from one of the addresses ips (lines 246-252): a
\* browser that is already logged in is redirected to the index page
LoginPost(t, ips) ==
    /\ logins[t].pc = "idle"
    /\ posts < MaxPosts
    /\ posts' = posts + 1
    /\ \E ip \in ips : \E valid \in BOOLEAN : \E token \in LoginTokens :
         logins' = [logins EXCEPT ![t] =
                       IF session.user_id # 0
                       THEN Login("done", ip, valid, token, 0, <<>>, 302)
                       ELSE Login("test", ip, valid, token, 0, <<>>, 0)]
    /\ UNCHANGED <<login_attempts, session, users, admitted, now, loginFrame>>

\* the number of POSTs of address ip that check_rate_limit let through
RECURSIVE AdmittedAt(_, _)
AdmittedAt(ip, S) ==
    IF S = {} THEN 0
    ELSE LET t == CHOOSE x \in S : TRUE
         IN  admitted[<<ip, t>>] + AdmittedAt(ip, S \ {t})

LoginBegin(t) ==
    LoginPost(t, IF AdmittedAt(OtherAddress, LoginInstants) < MaxOtherPosts
                 THEN Addresses ELSE {FirstAddress})

\* check_rate_limit: now = datetime.now(); if ip_address in login_attempts
LoginTest(t) ==
    /\ logins[t].pc = "test"
    /\ logins' = [logins EXCEPT ![t].now = now,
                                ![t].pc = IF logins[t].ip \in DOMAIN login_attempts
                                          THEN "read" ELSE "write"]
    /\ UNCHANGED <<login_attempts, session, users, admitted, posts, now, loginFrame>>

\* check_rate_limit: attempts, first_attempt = login_attempts[ip_address]; the
\* read raises KeyError when the entry was deleted after the membership test
LoginRead(t) ==
    /\ logins[t].pc = "read"
    /\ logins' = [logins EXCEPT ![t] =
                      IF logins[t].ip \in DOMAIN login_attempts
                      THEN [logins[t] EXCEPT !.pc = "write",
                                             !.entry = login_attempts[logins[t].ip]]
                      ELSE [logins[t] EXCEPT !.pc = "done", !.status = 500]]
    /\ UNCHANGED <<login_attempts, session, users, admitted, posts, now, loginFrame>>

\* check_rate_limit: the decision and the write of the entry (lines 155-170);
\* a refused POST is answered 429 (lines 254-256)
LoginWrite(t) ==
    /\ logins[t].pc = "write"
    /\ LET l == logins[t]
           admit(entry) ==
               /\ login_attempts' = SetAttempts(login_attempts, l.ip, entry)
               /\ admitted' = [admitted EXCEPT ![<<l.ip, l.now>>] = @ + 1]
               /\ logins' = [logins EXCEPT ![t].pc = "auth"]
       IN  IF l.entry = <<>> THEN admit(<<1, l.now>>)
           ELSE IF WindowPassed(l.entry, l.now) THEN admit(<<1, l.now>>)
           ELSE IF Blocked(l.entry)
           THEN /\ logins' = [logins EXCEPT ![t].pc = "done", ![t].status = 429]
                /\ UNCHANGED <<login_attempts, admitted>>
           ELSE admit(<<l.entry[1] + 1, l.entry[2]>>)
    /\ UNCHANGED <<session, users, posts, now, loginFrame>>

\* the credential check and its consequences (lines 258-280)
LoginAuth(t) ==
    /\ logins[t].pc = "auth"
    /\ IF logins[t].valid
       THEN /\ users' = [users EXCEPT !.last_login = now]
            /\ session' = [session EXCEPT !.user_id = CurrentUser]
            /\ login_attempts' = reset_rate_limit(login_attempts, logins[t].ip)
            /\ logins' = [logins EXCEPT ![t].pc = "done", ![t].status = 302]
       ELSE /\ logins' = [logins EXCEPT ![t].pc = "done", ![t].status = 200]
            /\ UNCHANGED <<users, session, login_attempts>>
    /\ UNCHANGED <<admitted, posts, now, loginFrame>>

\* the answer was sent
LoginReturn(t) ==
    /\ logins[t].pc = "done"
    /\ logins' = [logins EXCEPT ![t] = IdleLogin]
    /\ UNCHANGED <<login_attempts, session, users, admitted, posts, now, loginFrame>>

\* no login POST is being handled
NoLoginInFlight == \A t \in Threads : logins[t].pc = "idle"

\* GET /logout (lines 286-293): logout_user() and session.clear()
Logout ==
    /\ NoLoginInFlight
    /\ session.user_id # 0
    /\ session' = Session(0, None)
    /\ UNCHANGED <<login_attempts, users, logins, admitted, posts, now, loginFrame>>

\* time passes between two requests
LoginTick ==
    /\ NoLoginInFlight
    /\ \E t \in LoginInstants : t > now /\ now' = t
    /\ UNCHANGED <<login_attempts, session, users, logins, admitted, posts, loginFrame>>

\* ---------------------------------------------------------------- app_basic
\* the handler has not called send_single_receipt
NoResult == <<>>

\* the tuple (success, message_id, error_message) send_single_receipt returns
ResultTuple(resp) == <<resp.success, resp.message_id, resp.error_message>>

\* Python truthiness of a tuple: it is not empty
TupleTruthy(x) == Len(x) > 0

BasicForm(e, n, d) == [email |-> e, name |-> n, purchase_date |-> d]

\* the forms posted to /send-single of app_basic (request.form.get(key) is
\* None for a field that was not posted)
BasicForms ==
    {BasicForm(S_addr, <<"n">>, <<"7">>),
     BasicForm(<<"b">>, <<"m">>, <<"8">>),
     BasicForm(S_addr, None, <<"7">>),
     BasicForm(S_addr, <<"n">>, E)}

FLASH_BASIC_REQUIRED == "All fields are required"

\* app_basic: POST /send-single (lines 90-118)
BasicSendSingle ==
    /\ pc = "idle"
    /\ \E form \in BasicForms :
         IF ~(Truthy(form.email) /\ Truthy(form.name) /\ Truthy(form.purchase_date))
         THEN /\ flash' = Flash(FLASH_BASIC_REQUIRED, 0, 0)
              /\ UNCHANGED <<gatewayCalls, success>>
         ELSE \E resp \in (IF CallsRemote THEN GatewayResponses ELSE {NotInitialised}) :
                 /\ gatewayCalls' =
                      IF CallsRemote
                      THEN SendTransacEmail(gatewayCalls,
                               SingleCall(form.email, form.name, form.purchase_date))
                      ELSE gatewayCalls
                 /\ success' = ResultTuple(resp)
                 /\ flash' = Flash(IF TupleTruthy(ResultTuple(resp)) THEN FLASH_SENT
                                   ELSE FLASH_NOT_SENT, 0, 0)
    /\ UNCHANGED <<pc, rows, recipients, idx, recipient_email, recipient_name, success_count,
                   failed_count, results, next_uuid, sent_emails, persist_failed>>
    /\ UNCHANGED <<configVars, txnVars, appVars, loginVars, sessionVars>>

BasicJson(e, n, m, a, d) ==
    [email |-> e, name |-> n, magazine_name |-> m, purchase_amount |-> a,
     purchase_date |-> d]

\* the JSON bodies posted to /api/send-email of app_basic: a key that is not
\* in the body is Missing
BasicJsonInputs ==
    {BasicJson(S_addr, <<"n">>, <<"M">>, <<"9">>, <<"7">>),
     BasicJson(<<"b">>, <<"m">>, <<"M">>, <<"9">>, <<"8">>),
     BasicJson(S_addr, <<"n">>, Missing, <<"9">>, <<"7">>),
     BasicJson(S_addr, <<"n">>, <<"M">>, <<"9">>, Missing)}

\* app_basic: POST /api/send-email (lines 173-194); has_data is false when
\* get_json() gives None, and the membership test raises TypeError
BasicApiSendEmail ==
    /\ pc = "idle"
    /\ \E has_data \in BOOLEAN : \E data \in BasicJsonInputs :
         IF ~has_data
         THEN /\ api_response' = Response(500, "argument of type 'NoneType' is not iterable")
              /\ UNCHANGED <<gatewayCalls, success>>
         ELSE IF \E f \in DOMAIN data : data[f] = Missing
         THEN /\ api_response' = Response(400, "Missing required fields")
              /\ UNCHANGED <<gatewayCalls, success>>
         ELSE \E resp \in (IF CallsRemote THEN GatewayResponses ELSE {NotInitialised}) :
                 /\ gatewayCalls' =
                      IF CallsRemote
                      THEN SendTransacEmail(gatewayCalls,
                               SingleCall(data.email, data.name, data.purchase_date))
                      ELSE gatewayCalls
                 /\ success' = ResultTuple(resp)
                 /\ api_response' =
                      IF TupleTruthy(ResultTuple(resp))
                      THEN Response(200, "Email sent successfully")
                      ELSE Response(500, "Failed to send email")
    /\ UNCHANGED <<pc, rows, recipients, idx, recipient_email, recipient_name, success_count,
                   failed_count, results, next_uuid, sent_emails, persist_failed, flash>>
    /\ UNCHANGED <<configVars, txnVars, now, view, loginVars, sessionVars>>

\* --------------------------------------------------------- specifications
InitBulk ==
    /\ pc = "idle"
    /\ rows = <<>>
    /\ recipients = <<>>
    /\ idx = 1
    /\ recipient_email = Unbound
    /\ recipient_name = Unbound
    /\ success_count = 0
    /\ failed_count = 0
    /\ results = <<>>
    /\ next_uuid = 1
    /\ gatewayCalls = <<>>
    /\ sent_emails = <<>>
    /\ persist_failed = FALSE
    /\ flash = NoFlash
    /\ now = Instant(0)
    /\ view = NoView
    /\ api_response = NoResponse
    /\ csrf_form_token = NoPost
    /\ InitLoginState
    /\ success = NoResult

\* EmailService.__init__: the client exists exactly when the API key is set
Init ==
    /\ brevo_api_key \in BOOLEAN
    /\ sender_email \in BOOLEAN
    /\ api_instance = brevo_api_key
    /\ InitBulk
    /\ session = SignedIn
    /\ message_id = None
    /\ transaction_id = None
    /\ tpc = "idle"

Next == Upload \/ ProcessRow \/ ReturnSummary \/ PersistBulk

Spec == Init /\ [][Next]_vars

\* message ids over the characters that matter to extract_transaction_id
IdChars == {"<", "@", ">", "[", "]", "A"}
RECURSIVE SeqsUpTo(_, _)
SeqsUpTo(S, n) == IF n = 0 THEN {<<>>}
                  ELSE LET shorter == SeqsUpTo(S, n - 1)
                       IN  shorter \cup {Append(s, c) : s \in shorter, c \in S}
TxnInputs == SeqsUpTo(IdChars, MaxIdLen) \cup {None}

InitTxn ==
    /\ brevo_api_key = TRUE
    /\ sender_email = TRUE
    /\ api_instance = TRUE
    /\ InitBulk
    /\ session = SignedIn
    /\ message_id \in TxnInputs
    /\ transaction_id = None
    /\ tpc = "call"

NextTxn == ExtractTransactionId

SpecTxn == InitTxn /\ [][NextTxn]_vars

ListSentEmails == ListWith(Filters)

\* a session of the application: requests follow one another, each one
\* answered before the next starts
Fresh ==
    /\ pc = "idle"
    /\ view = NoView
    /\ api_response = NoResponse
    /\ flash = NoFlash
    /\ csrf_form_token = NoPost

\* the number of sends the session has made so far
Sends ==
    LET made == IF Len(gatewayCalls) > next_uuid - 1 THEN Len(gatewayCalls) ELSE next_uuid - 1
    IN  IF Len(sent_emails) > made THEN Len(sent_emails) ELSE made

\* the session still has a send left
Budget == Sends < MaxLog

\* the query strings of the audit views of a session
SessionFilters == {NoFilter, Filter("failed", E, E, E)}

FormRequest == Fresh /\ Budget /\ csrf_protect(SendSingle)
ApiRequest == Fresh /\ Budget /\ ApiSendEmail
BulkRequest == Fresh /\ Budget /\ csrf_protect(UploadOf({H_basic}, MaxLog - Sends))
ExportRequest == Fresh /\ ExportWith(SessionFilters)
ListRequest == Fresh /\ ListWith(SessionFilters)

\* the answer was delivered: the locals of the request are gone, and the next
\* request finds the clock one sampled instant later for every send made
NextRequest ==
    /\ ~Fresh
    /\ pc = "done" \/ pc = "idle"
    /\ pc' = "idle"
    /\ rows' = <<>>
    /\ recipients' = <<>>
    /\ idx' = 1
    /\ recipient_email' = Unbound
    /\ recipient_name' = Unbound
    /\ success_count' = 0
    /\ failed_count' = 0
    /\ results' = <<>>
    /\ persist_failed' = FALSE
    /\ flash' = NoFlash
    /\ view' = NoView
    /\ api_response' = NoResponse
    /\ now' = Instant(IF Sends < MaxTime THEN Sends ELSE MaxTime)
    /\ csrf_form_token' = NoPost
    /\ success' = NoResult
    /\ UNCHANGED <<next_uuid, gatewayCalls, sent_emails, configVars, txnVars, loginVars,
                   session>>

NextApp ==
    \/ FormRequest \/ ApiRequest \/ BulkRequest \/ ProcessRow \/ ReturnSummary
    \/ PersistBulk \/ ExportRequest \/ ListRequest \/ NextRequest

InitApp ==
    /\ brevo_api_key \in BOOLEAN
    /\ sender_email = TRUE
    /\ api_instance = brevo_api_key
    /\ InitBulk
    /\ session \in {SignedIn, Session(CurrentUser, None)}
    /\ message_id = None
    /\ transaction_id = None
    /\ tpc = "idle"

SpecApp == InitApp /\ [][NextApp]_vars

\* the tables the audit views are asked about: up to MaxLog records logged by
\* single sends at non-decreasing instants
LoggedResponses == {[success |-> TRUE, message_id |-> M_shaped, error_message |-> NoError],
                    [success |-> FALSE, message_id |-> None, error_message |-> ERR_API]}
LoggedNames == {<<"n">>, <<"m">>}

LoggedSend(i, t, name, resp) ==
    [SingleSentEmail(i - 1, S_addr, name, <<"7">>, S_print, None, None, None, resp)
        EXCEPT !.sent_at = t]

Tables ==
    UNION {{[i \in 1..n |-> LoggedSend(i, ts[i], nm[i], rs[i])] :
               ts \in {u \in [1..n -> Instants] : \A i \in 1..(n - 1) : u[i] <= u[i + 1]},
               nm \in [1..n -> LoggedNames],
               rs \in [1..n -> LoggedResponses]} : n \in 0..MaxLog}

InitExport ==
    /\ brevo_api_key = TRUE
    /\ sender_email = TRUE
    /\ api_instance = TRUE
    /\ pc = "idle"
    /\ rows = <<>>
    /\ recipients = <<>>
    /\ idx = 1
    /\ recipient_email = Unbound
    /\ recipient_name = Unbound
    /\ success_count = 0
    /\ failed_count = 0
    /\ results = <<>>
    /\ next_uuid = 1
    /\ gatewayCalls = <<>>
    /\ now = Instant(MaxTime)
    /\ sent_emails \in Tables
    /\ persist_failed = FALSE
    /\ flash = NoFlash
    /\ view = NoView
    /\ api_response = NoResponse
    /\ csrf_form_token = NoPost
    /\ InitLoginState
    /\ session = SignedIn
    /\ success = NoResult
    /\ message_id = None
    /\ transaction_id = None
    /\ tpc = "idle"

\* the audit views of a table: one list, or a series of exports
ListOnce == view = NoView /\ ListSentEmails
ExportAgain == view.kind \in {"none", "export"} /\ ExportSentEmails

NextExport == ExportAgain \/ ListOnce

SpecExport == InitExport /\ [][NextExport]_vars

\* the login route, one POST after the other
NextLogin ==
    \/ LoginBegin(1) \/ LoginTest(1) \/ LoginRead(1) \/ LoginWrite(1) \/ LoginAuth(1)
    \/ LoginReturn(1) \/ Logout \/ LoginTick

\* a browser that is not logged in and has rendered the login form
InitLogin ==
    /\ brevo_api_key = TRUE
    /\ sender_email = TRUE
    /\ api_instance = TRUE
    /\ InitBulk
    /\ session = Session(0, Token1)
    /\ message_id = None
    /\ transaction_id = None
    /\ tpc = "idle"

SpecLogin == InitLogin /\ [][NextLogin]_vars

\* the login route under a threaded server: up to MaxThreads POSTs of one
\* address are handled at the same time, their steps interleaved
NextThreads ==
    \/ \E t \in Threads :
          \/ LoginPost(t, {FirstAddress}) \/ LoginTest(t) \/ LoginRead(t) \/ LoginWrite(t)
          \/ LoginAuth(t) \/ LoginReturn(t)
    \/ Logout
    \/ LoginTick

SpecThreads == InitLogin /\ [][NextThreads]_vars

\* a session of app_basic: form and API sends, one after the other
BasicFormRequest == Fresh /\ Budget /\ BasicSendSingle
BasicApiRequest == Fresh /\ Budget /\ BasicApiSendEmail

NextBasic == BasicFormRequest \/ BasicApiRequest \/ NextRequest

InitBasic ==
    /\ brevo_api_key \in BOOLEAN
    /\ sender_email \in BOOLEAN
    /\ api_instance = brevo_api_key
    /\ InitBulk
    /\ session = SignedIn
    /\ message_id = None
    /\ transaction_id = None
    /\ tpc = "idle"

SpecBasic == InitBasic /\ [][NextBasic]_vars

\* ------------------------------------------------ vocabulary of the claims
\* the text of a field of an input row, without surrounding whitespace
FieldText(row, f) == IF row[f] = None \/ row[f] = Missing THEN E ELSE strip(row[f])

HasValue(row, f) == row[f] # None /\ row[f] # Missing

\* send_bulk_receipts has returned its summary to send_bulk
Returned == pc = "persist" \/ (pc = "done" /\ flash.text = FLASH_DONE)

\* the request has finished by flashing the summary
Completed == pc = "done" /\ flash.text = FLASH_DONE

RequiredPresent(row) ==
    \A f \in {"email", "name", "purchase_date"} : FieldText(row, f) # E

QuantityParses(row) ==
    \/ row["quantity"] = Missing
    \/ /\ row["quantity"] # None
       /\ (FieldText(row, "quantity") = E \/ IsIntLiteral(row["quantity"]))

\* the edition reads 'digital' once lower-cased and trimmed
DigitalRow(row) == HasValue(row, "edition") /\ strip(lower(row["edition"])) = S_digital

EmptyCredential(row) ==
    \E f \in {"link", "username", "password"} : FieldText(row, f) = E

NoFieldAbsent(row) == \A f \in ColSet : row[f] # None

\* the row passes the validation of the bulk send
RowIsValid(row) ==
    /\ NoFieldAbsent(row)
    /\ RequiredPresent(row)
    /\ QuantityParses(row)
    /\ (DigitalRow(row) => ~EmptyCredential(row))

CallsOfRow(i) == {k \in DOMAIN gatewayCalls : gatewayCalls[k].row = i}

\* ------------------------------------------------------------------ C1
\* C1: send_bulk_receipts returns exactly one outcome per data row, and the
\* i-th outcome carries the email and the name of the i-th row.
C1_Alignment ==
    Returned =>
        /\ Len(results) = Len(rows)
        /\ \A i \in 1..Len(rows) :
             i <= Len(results) =>
                /\ results[i].recipient_email = FieldText(rows[i], "email")
                /\ results[i].recipient_name = FieldText(rows[i], "name")

\* ------------------------------------------------------------------ C2
\* the edition of a row as the parser normalises it: case-insensitive,
\* anything but digital is print
RowEdition(row) ==
    IF HasValue(row, "edition") /\ lower(row["edition"]) = S_digital
    THEN S_digital ELSE S_print

\* C2: a bulk send without persistence error appends exactly one SentEmail
\* per data row, the i-th holding the recipient, purchase_date and edition of
\* the i-th row and the status of that row's outcome.
C2_OneRecordPerRow ==
    (Completed /\ ~persist_failed) =>
        /\ Len(sent_emails) = Len(rows)
        /\ \A i \in 1..Len(rows) :
             i <= Len(sent_emails) =>
                /\ sent_emails[i].recipient_email = FieldText(rows[i], "email")
                /\ strip(sent_emails[i].purchase_date) = FieldText(rows[i], "purchase_date")
                /\ sent_emails[i].edition = RowEdition(rows[i])
                /\ i <= Len(results)
                /\ sent_emails[i].status = (IF results[i].success THEN "success" ELSE "failed")

\* ------------------------------------------------------------------ C3
\* C3: in the returned summary success + failed is the number of rows,
\* success counts the successful outcomes and failed the failed outcomes.
C3_Counts ==
    Returned =>
        /\ success_count + failed_count = Len(rows)
        /\ success_count = Cardinality({k \in DOMAIN results : results[k].success})
        /\ failed_count = Cardinality({k \in DOMAIN results : ~results[k].success})

\* ------------------------------------------------------------------ C4
\* the loop is about to process a digital row with an empty credential
AtDigitalRowWithoutCredentials ==
    /\ pc = "service"
    /\ idx <= Len(rows)
    /\ DigitalRow(rows[idx])
    /\ EmptyCredential(rows[idx])

CredentialsFailure(row) ==
    Outcome(FieldText(row, "email"), FieldText(row, "name"), FALSE, None, ERR_CREDENTIALS)

\* C4 as stated: a digital row with an empty link, username or password makes
\* no gateway call and its outcome is the failure "Missing digital access
\* credentials".
C4_AsStated ==
    [][AtDigitalRowWithoutCredentials =>
          /\ gatewayCalls' = gatewayCalls
          /\ results' = Append(results, CredentialsFailure(rows[idx]))]_vars

\* C4 amended: a digital row with an empty link, username or password makes
\* no gateway call and every outcome recorded for it is a failure; the outcome
\* is the failure "Missing digital access credentials" when its email, name and
\* purchase_date are non-empty, its quantity is empty or an integer and no
\* field of the row is absent.
C4_Amended ==
    [][AtDigitalRowWithoutCredentials =>
          /\ gatewayCalls' = gatewayCalls
          /\ success_count' = success_count
          /\ \A k \in (Len(results) + 1)..Len(results') : ~results'[k].success
          /\ (NoFieldAbsent(rows[idx]) /\ RequiredPresent(rows[idx]) /\ QuantityParses(rows[idx])
                => results' = Append(results, CredentialsFailure(rows[idx])))]_vars

\* a digital row without its password has been rejected while the client is
\* initialised
C4_Witness ==
    /\ api_instance
    /\ idx > 1
    /\ idx - 1 <= Len(rows)
    /\ DigitalRow(rows[idx - 1])
    /\ FieldText(rows[idx - 1], "password") = E
    /\ results # <<>>
    /\ results[Len(results)] = CredentialsFailure(rows[idx - 1])
    /\ gatewayCalls = <<>>

\* ------------------------------------------------------------------ C5
\* the same row with edition 'print'
PrintVersion(row) == [row EXCEPT !["edition"] = S_print]

\* row i of the batch was handled exactly as its print version: the same
\* raising statement, the same parsed and validated values, the same
\* recipient_data, a gateway call that renders the print template without
\* digital values, the same outcome, and a record with edition 'print'
TreatedAsPrint(i) ==
    LET row == rows[i]
        pr == PrintVersion(row)
    IN  /\ RouteParse(row) = RouteParse(pr)
        /\ (i <= Len(recipients) =>
               recipients[i] = RouteParse(pr) /\ recipients[i].edition = S_print)
        /\ (i < idx =>
               /\ RaiseStage(row) = RaiseStage(pr)
               /\ (RaiseStage(row) = 0 =>
                      /\ ParseRow(row) = ParseRow(pr)
                      /\ MissingRequired(ParseRow(row)) = MissingRequired(ParseRow(pr))
                      /\ MissingCredentials(ParseRow(row)) = MissingCredentials(ParseRow(pr)))
               /\ \A k \in CallsOfRow(i) :
                    LET c == gatewayCalls[k].content
                        p == ParseRow(pr)
                    IN  /\ c.template = "email_receipt_print.html"
                        /\ c.digital_link = E /\ c.digital_username = E /\ c.digital_password = E
                        /\ c = create_receipt_email(p.recipient_name, p.purchase_date,
                                 p.quantity, c.transaction_id, S_print, None, None, None))
        /\ (i <= Len(sent_emails) =>
               /\ sent_emails[i].edition = S_print
               /\ sent_emails[i].digital_link = None
               /\ sent_emails[i].digital_username = None
               /\ sent_emails[i].digital_password = None)

ValidationErrors == {ERR_REQUIRED, ERR_CREDENTIALS, ERR_ROW}

\* C6: with the gateway not configured (API key or sender address absent) a
\* bulk send over R > 0 rows completes with success = 0 and failed = R, and
\* every record of the batch is 'failed' with the configuration error (the
\* rows rejected before the dispatch keep their validation message).
C6_UnconfiguredBatchFails ==
    (Completed /\ ~is_configured /\ Len(rows) > 0) =>
        /\ success_count = 0
        /\ failed_count = Len(rows)
        /\ flash.sent = 0
        /\ flash.failed = Len(rows)
        /\ \A k \in DOMAIN sent_emails :
             /\ sent_emails[k].status = "failed"
             /\ sent_emails[k].error_message \in ValidationErrors \cup {ERR_NOT_INIT}

\* ------------------------------------------------------------------ C7
\* C7: while the gateway is not configured send_email never calls the remote
\* API and answers with the configuration error.
C7_NoCallUnlessConfigured ==
    ~is_configured =>
        /\ gatewayCalls = <<>>
        /\ \A k \in DOMAIN results :
             results[k].error_message \in ValidationErrors \cup {ERR_NOT_INIT}

\* ------------------------------------------------------------------ C8
\* C8: the remote API is called at most once per input row, only for rows
\* already reached by the loop and only for rows that pass validation; a failed
\* call is not repeated.
C8_AtMostOneCallPerRow ==
    /\ \A k \in DOMAIN gatewayCalls : gatewayCalls[k].row \in 1..Len(rows)
    /\ \A i \in 1..Len(rows) :
         /\ Cardinality(CallsOfRow(i)) <= 1
         /\ (CallsOfRow(i) # {} => i < idx /\ RowIsValid(rows[i]))
    /\ Len(gatewayCalls) <= Cardinality({k \in DOMAIN results :
                                  results[k].error_message \notin ValidationErrors \cup {ERR_NOT_INIT}})

\* one batch held a row the gateway failed on and a row that failed
\* validation, and the gateway was called exactly once
C8_Witness ==
    /\ Returned
    /\ Len(rows) = 2
    /\ Len(gatewayCalls) = 1
    /\ \E k \in DOMAIN results : results[k].error_message = ERR_API
    /\ \E k \in DOMAIN results : results[k].error_message = ERR_REQUIRED

\* ------------------------------------------------------------------ C9
\* index of the first '@' of m
FirstAt(m) == CHOOSE j \in DOMAIN m : m[j] = "@" /\ \A h \in 1..(j - 1) : m[h] # "@"

\* m has the shape <left@right>
HasShape(m) ==
    /\ m # None
    /\ Len(m) >= 3
    /\ m[1] = "<"
    /\ m[Len(m)] = ">"
    /\ \E j \in 2..(Len(m) - 1) : m[j] = "@"

PersistedTransactionIds ==
    \A k \in DOMAIN sent_emails :
        /\ HasShape(sent_emails[k].message_id) =>
              sent_emails[k].transaction_id =
                  SubSeq(sent_emails[k].message_id, 2, FirstAt(sent_emails[k].message_id) - 1)
        /\ sent_emails[k].message_id = None => sent_emails[k].transaction_id = None

\* ------------------------------------------------------------------ C10
\* C10 as stated: on a message_id without the full <...@...> shape (a leading
\* '<', an '@' and a closing '>') extract_transaction_id returns the message_id
\* unchanged; an absent (None or empty) message_id yields None.
C10_AsStated ==
    (tpc = "returned" /\ ~HasShape(message_id)) =>
        transaction_id = (IF message_id = E THEN None ELSE message_id)

\* C10 amended: extract_transaction_id returns unchanged every message_id
\* that does not both start with '<' and contain an '@' (a closing '>' is not
\* required for the extraction); an absent (None or empty) message_id yields
\* None.
C10_Amended ==
    tpc = "returned" =>
        /\ (message_id = None \/ message_id = E) => transaction_id = None
        /\ (message_id # None /\ message_id # E
              /\ ~(message_id[1] = "<" /\ \E j \in DOMAIN message_id : message_id[j] = "@"))
             => transaction_id = message_id

\* an id with an '@' but no leading '<' came back unchanged
C10_Witness ==
    /\ tpc = "returned"
    /\ message_id = <<"A", "@", "A">>
    /\ transaction_id = <<"A", "@", "A">>

\* ------------------------------------------------------------------ C11
\* m starts with '<[', then a non-empty text without brackets or '@', then ']@'
ClosingBracket(m) == CHOOSE j \in DOMAIN m : m[j] = "]" /\ \A h \in 1..(j - 1) : m[h] # "]"

Bracketed(m) ==
    /\ m # None
    /\ Len(m) >= 5
    /\ m[1] = "<"
    /\ m[2] = "["
    /\ \E j \in 4..(Len(m) - 1) :
         /\ m[j] = "]"
         /\ m[j + 1] = "@"
         /\ \A h \in 3..(j - 1) : m[h] \notin {"[", "]", "@", "<", ">"}

\* C11: for a message_id that embeds the transaction id in square brackets,
\* <[T]@host>, extract_transaction_id returns T without the brackets.
C11_BracketedId ==
    (tpc = "returned" /\ Bracketed(message_id)) =>
        transaction_id = SubSeq(message_id, 3, ClosingBracket(message_id) - 1)

\* ------------------------------------------------------------------ C12
\* C12: once a bulk send has logged its outcomes, every row that was
\* dispatched to the gateway has a record that carries the transaction id
\* generated for it before the call, whether the call succeeded or failed, and
\* no two dispatches of the batch share an id.
C12_PreGeneratedIdAttached ==
    /\ \A k, h \in DOMAIN gatewayCalls :
         k # h => gatewayCalls[k].content.transaction_id # gatewayCalls[h].content.transaction_id
    /\ (Completed /\ ~persist_failed) =>
          \A k \in DOMAIN gatewayCalls :
             \E j \in DOMAIN sent_emails :
                /\ sent_emails[j].recipient_email = gatewayCalls[k].to
                /\ sent_emails[j].transaction_id = gatewayCalls[k].content.transaction_id

\* ------------------------------------------------------------------ C13
\* C13: send_bulk_receipts, once called, only ever continues with the next row
\* or returns its summary to send_bulk; it never raises to its caller.
C13_NeverRaises ==
    [][pc = "service" => pc' \in {"service", "persist"}]_vars

\* ------------------------------------------------------------------ C14
\* the loop is about to process a row whose quantity is present and is not an
\* integer, its email, name and purchase_date being present
AtBadQuantityRow ==
    /\ pc = "service"
    /\ idx <= Len(rows)
    /\ \A f \in {"email", "name", "purchase_date"} : rows[idx][f] # None
    /\ HasValue(rows[idx], "quantity")
    /\ FieldText(rows[idx], "quantity") # E
    /\ ~IsIntLiteral(rows[idx]["quantity"])

\* C14: a row whose quantity is not an integer produces exactly one failed
\* outcome, makes no gateway call and lets the loop go on with the next row.
C14_BadQuantityOneFailure ==
    [][AtBadQuantityRow =>
          /\ Len(results') = Len(results) + 1
          /\ ~results'[Len(results')].success
          /\ SubSeq(results', 1, Len(results)) = results
          /\ gatewayCalls' = gatewayCalls
          /\ idx' = idx + 1
          /\ pc' = "service"]_vars

\* ------------------------------------------------------------------ C15
\* the outcomes of the batch whose record the database refuses
RefusedOutcomes == {i \in DOMAIN results : ViolatesNotNull(SentEmail(i, 0))}

\* the record of outcome i is among the committed rows
OutcomePersisted(i) ==
    \E k \in DOMAIN sent_emails :
        /\ sent_emails[k].recipient_email = results[i].recipient_email
        /\ sent_emails[k].recipient_name = results[i].recipient_name
        /\ sent_emails[k].message_id = results[i].message_id
        /\ sent_emails[k].error_message = results[i].error_message

\* C15: when the record of one outcome of a batch cannot be persisted, the
\* records of the other outcomes of the batch are persisted all the same.
C15_OtherRecordsPersisted ==
    (Completed /\ RefusedOutcomes # {}) =>
        \A i \in DOMAIN results : i \notin RefusedOutcomes => OutcomePersisted(i)

\* ------------------------------------------------------------------ C16
\* C16: the gateway calls of a batch follow the input order, and once
\* send_bulk_receipts was called and the request is over every valid row has
\* been dispatched, whatever happened to the rows before it.
C16_InOrderAndNoRowSkipped ==
    /\ \A k, h \in DOMAIN gatewayCalls :
         k < h => gatewayCalls[k].row < gatewayCalls[h].row
    /\ (pc \in {"persist", "done"} /\ api_instance /\ Len(recipients) = Len(rows)) =>
          \A j \in 1..Len(rows) : RowIsValid(rows[j]) => CallsOfRow(j) # {}

\* ------------------------------------------------------------------ C17
\* the rendered content c is the variant of the given edition
RenderedAs(c, edition, link, username, password) ==
    IF edition = S_digital
    THEN /\ c.template = "email_receipt_digital.html"
         /\ c.digital_link = link
         /\ c.digital_username = username
         /\ c.digital_password = password
    ELSE c.template = "email_receipt_print.html"

\* C17: whenever a receipt is handed to the gateway, by the form, by the JSON
\* API or by the bulk loop, its content is the template variant of the edition
\* of the record logged for it: the digital template with the record's link,
\* username and password for 'digital', the print template for 'print'.
C17_TemplateByEdition ==
    [][Len(gatewayCalls') = Len(gatewayCalls) + 1 =>
          LET c == gatewayCalls'[Len(gatewayCalls')].content
          IN  IF pc = "service"
              THEN LET r == recipients[idx]
                   IN  RenderedAs(c, r.edition, r.digital_link, r.digital_username,
                                  r.digital_password)
              ELSE Len(sent_emails') = Len(sent_emails) + 1 =>
                      LET r == sent_emails'[Len(sent_emails')]
                      IN  RenderedAs(c, r.edition, r.digital_link, r.digital_username,
                                     r.digital_password)]_vars

\* ------------------------------------------------------------------ C18
\* C18: no step of a session (single send, API send, bulk send, list, export)
\* removes or changes a committed SentEmail: every committed record is still
\* in the table, unchanged, after the step.
C18_AppendOnly ==
    [][\A k \in DOMAIN sent_emails :
          k \in DOMAIN sent_emails' /\ sent_emails'[k] = sent_emails[k]]_vars

\* two sends of different requests were logged and the table was exported
C18_Witness ==
    /\ view.kind = "export"
    /\ Len(sent_emails) = 2
    /\ sent_emails[1].sent_at < sent_emails[2].sent_at
    /\ sent_emails[1].id = 1
    /\ sent_emails[2].id = 2

\* ------------------------------------------------------------------ C19
\* C19: an export that follows an export with the same filters, the table
\* being the same, answers with the same CSV rows in the same order.
C19_ExportIdempotent ==
    [][(view.kind = "export" /\ view'.kind = "export" /\ view'.filters = view.filters
          /\ sent_emails' = sent_emails)
            => (view'.header = view.header /\ view'.rows = view.rows)]_vars

\* ------------------------------------------------------------------ C20
\* the ids in the ID column of the exported rows
ExportedIds == {view.rows[i][1] : i \in DOMAIN view.rows}

\* C20: an export with status filter 'failed' holds only rows whose Status is
\* 'failed', and holds exactly once every 'failed' record that the same
\* filters without the status select.
C20_FailedOnly ==
    (view.kind = "export" /\ view.filters.status = "failed") =>
        /\ \A i \in DOMAIN view.rows : view.rows[i][8] = "failed"
        /\ ExportedIds =
             {k \in Matching(sent_emails, [view.filters EXCEPT !.status = ""]) :
                 sent_emails[k].status = "failed"}
        /\ Cardinality(ExportedIds) = Len(view.rows)

\* a failed record of day 0 was exported with the date range ending on day 0
\* while the table also held a success logged at the same instant
C20_Witness ==
    /\ view.kind = "export"
    /\ view.filters.status = "failed"
    /\ view.filters.date_to = <<"0">>
    /\ Len(view.rows) = 1
    /\ Len(sent_emails) = 2
    /\ \E k \in DOMAIN sent_emails :
         sent_emails[k].status = "success" /\ sent_emails[k].sent_at = Instant(0)
    /\ \E k \in DOMAIN sent_emails :
         sent_emails[k].status = "failed" /\ sent_emails[k].sent_at = Instant(0)

\* ------------------------------------------------------------------ C21
\* the record an exported row was written from (the ID column is its key)
RecordOfRow(i) == sent_emails[view.rows[i][1]]

\* C21: the export is the fixed 13-column header followed by exactly one row
\* per record matching the filters, newest first (sent_at never increases from
\* one row to the next); when no record matches, it is the header alone.
C21_ExportShape ==
    view.kind = "export" =>
        /\ view.header = ExportHeader
        /\ Len(view.header) = 13
        /\ \A i \in DOMAIN view.rows :
             /\ Len(view.rows[i]) = 13
             /\ view.rows[i][1] \in DOMAIN sent_emails
             /\ view.rows[i] = CsvRow(RecordOfRow(i))
        /\ ExportedIds = Matching(sent_emails, view.filters)
        /\ Len(view.rows) = Cardinality(Matching(sent_emails, view.filters))
        /\ \A i \in DOMAIN view.rows : \A j \in DOMAIN view.rows :
             i < j => RecordOfRow(i).sent_at >= RecordOfRow(j).sent_at
        /\ (Matching(sent_emails, view.filters) = {} => view.rows = <<>>)

\* two records logged at different instants were exported, the later one
\* first
C21_Witness ==
    /\ view.kind = "export"
    /\ Len(view.rows) = 2
    /\ view.rows[1][1] = 2
    /\ view.rows[2][1] = 1
    /\ sent_emails[1].sent_at < sent_emails[2].sent_at

\* ------------------------------------------------------------------ C22
\* the calendar day of an instant
DayOf(t) == t \div HalfSecondsPerDay

\* the record lies in the range of days the filters name
InDayRange(rec, f) ==
    /\ (f.date_from # E /\ IsDate(f.date_from)) => DayOf(rec.sent_at) >= DecVal(f.date_from)
    /\ (f.date_to # E /\ IsDate(f.date_to)) => DayOf(rec.sent_at) <= DecVal(f.date_to)

\* the ids of the records the view shows
ShownIds ==
    IF view.kind = "export" THEN ExportedIds
    ELSE {view.rows[i].id : i \in DOMAIN view.rows}

\* C22: the first page of the list and the export show every record that
\* passes the status and search filters and whose sent_at lies on a day from
\* the date_from day to the date_to day, the whole of the date_to day included.
C22_RangeInclusive ==
    (view.kind = "export" \/ (view.kind = "list" /\ view.page = 1)) =>
        \A k \in DOMAIN sent_emails :
            (/\ StatusMatches(sent_emails[k], view.filters.status)
             /\ SearchMatches(sent_emails[k], view.filters.search)
             /\ InDayRange(sent_emails[k], view.filters))
                => k \in ShownIds

\* ------------------------------------------------------------------ C23
\* C23: every gateway call of a bulk send renders an integer quantity of at
\* least 1, and the quantity 1 when the row's quantity column is missing or
\* empty.
C23_QuantityAtLeastOne ==
    \A k \in DOMAIN gatewayCalls :
        LET i == gatewayCalls[k].row
            q == gatewayCalls[k].content.quantity
        IN  i \in 1..Len(rows) =>
                /\ q \in Nat
                /\ q >= 1
                /\ (~HasValue(rows[i], "quantity") \/ FieldText(rows[i], "quantity") = E) => q = 1

\* ------------------------------------------------------------------ C27
\* C27: after a bulk send that logged one record per row, the record of every
\* row that was dispatched to the gateway holds the edition and the digital
\* link, username and password the row was validated, rendered and dispatched
\* with.
C27_RouteAgreesWithService ==
    (Completed /\ ~persist_failed /\ Len(sent_emails) = Len(rows)) =>
        \A i \in 1..Len(rows) :
            CallsOfRow(i) # {} =>
                LET p == ParseRow(rows[i])
                    r == sent_emails[i]
                IN  /\ r.edition = p.edition
                    /\ r.digital_link = p.digital_link
                    /\ r.digital_username = p.digital_username
                    /\ r.digital_password = p.digital_password
                    /\ \A k \in CallsOfRow(i) :
                         RenderedAs(gatewayCalls[k].content, r.edition, r.digital_link,
                                    r.digital_username, r.digital_password)

\* ------------------------------------------------------------------ C24
\* thread t takes the decision of check_rate_limit in this step
Decides(t) == logins[t].pc = "write" /\ logins'[t].pc # "write"

\* the time, in half seconds, from the first recorded attempt of the entry
\* thread t read to the attempt of t
Elapsed(t) == logins[t].now - logins[t].entry[2]

\* C24: a login attempt made more than RATE_LIMIT_WINDOW seconds after the
\* first recorded attempt of its address, however long after, is admitted and
\* leaves the address with the count 1 and the attempt as the new window start.
C24_AdmittedOnceWindowPassed ==
    [][\A t \in Threads :
          (Decides(t) /\ logins[t].entry # <<>> /\ Elapsed(t) > 2 * RATE_LIMIT_WINDOW)
              => /\ logins'[t].pc = "auth"
                 /\ logins[t].ip \in DOMAIN login_attempts'
                 /\ login_attempts'[logins[t].ip] = <<1, logins[t].now>>]_vars

\* ------------------------------------------------------------------ C25
\* no login has succeeded so far
NoSuccessfulLogin == users.last_login = NullTime

\* the number of POSTs of address ip let through from the first recorded
\* attempt of ip to the end of the window that starts there
AdmittedInWindow(ip) ==
    LET first == login_attempts[ip][2]
    IN  AdmittedAt(ip, {t \in LoginInstants :
                           first <= t /\ t <= first + 2 * RATE_LIMIT_WINDOW})

WithinLimit ==
    NoSuccessfulLogin =>
        \A ip \in DOMAIN login_attempts : AdmittedInWindow(ip) <= 5

\* C25: as long as no login succeeds, at most 5 POSTs of an address made
\* within the window that starts at its first recorded attempt reach the
\* credential check; a POST made in that window once 5 are counted is answered
\* 429 and changes neither the login state of the browser, nor the users
\* table, nor the counter of any address.
C25_AtMostFivePerWindow ==
    [][/\ WithinLimit'
       /\ \A t \in Threads :
            (/\ Decides(t)
             /\ logins[t].entry # <<>>
             /\ logins[t].entry[1] >= 5
             /\ Elapsed(t) >= 0
             /\ Elapsed(t) <= 2 * RATE_LIMIT_WINDOW)
                => /\ logins'[t].pc = "done"
                   /\ logins'[t].status = 429
                   /\ login_attempts' = login_attempts
                   /\ admitted' = admitted
                   /\ session' = session
                   /\ users' = users]_vars

\* the sixth POST of an address, made 300 s after its first, was answered 429
\* after five POSTs with wrong credentials had been let through
C25_Witness ==
    /\ NoSuccessfulLogin
    /\ logins[1].pc = "done"
    /\ logins[1].status = 429
    /\ logins[1].ip = FirstAddress
    /\ logins[1].now = Noon + 2 * RATE_LIMIT_WINDOW
    /\ FirstAddress \in DOMAIN login_attempts
    /\ login_attempts[FirstAddress] = <<5, Noon>>
    /\ AdmittedInWindow(FirstAddress) = 5

\* ------------------------------------------------------------------ C26
\* C26: however the steps of concurrent login POSTs of one address interleave,
\* as long as no login succeeds at most 5 of them are let through within one
\* window, and the count of the address is the number let through since the
\* window started.
C26_NoLostIncrement ==
    NoSuccessfulLogin =>
        \A ip \in DOMAIN login_attempts :
            /\ AdmittedAt(ip, {t \in LoginInstants :
                                  /\ login_attempts[ip][2] <= t
                                  /\ t <= login_attempts[ip][2] + 2 * RATE_LIMIT_WINDOW}) <= 5
            /\ login_attempts[ip][1] =
                  AdmittedAt(ip, {t \in LoginInstants : login_attempts[ip][2] <= t})

\* ------------------------------------------------------------------ C28
\* the POST being handled by a csrf-protected route has no token or a token
\* that is not the session's
BadPost ==
    /\ csrf_form_token # NoPost
    /\ (csrf_form_token = None \/ csrf_form_token = E
          \/ csrf_form_token # session.csrf_token)

\* C28: a POST to /send-single or /send-bulk whose form token is missing or
\* is not the session's token never runs the handler: it makes no gateway
\* call, adds no SentEmail and reads no row of an uploaded file; it is answered
\* with the flashed security error.
C28_BadTokenRunsNothing ==
    [][BadPost' =>
          /\ gatewayCalls' = gatewayCalls
          /\ sent_emails' = sent_emails
          /\ rows' = rows
          /\ recipients' = recipients
          /\ results' = results
          /\ next_uuid' = next_uuid
          /\ flash'.text = FLASH_CSRF]_vars

\* a POST with the token of another session was refused after an earlier
\* POST of the session had sent and logged an email
C28_Witness ==
    /\ csrf_form_token = Token2
    /\ flash.text = FLASH_CSRF
    /\ Len(gatewayCalls) = 1
    /\ Len(sent_emails) = 1

\* ------------------------------------------------------------------ C29
\* C29: a login POST that carries no CSRF token, or a token that is not the
\* session's, does not log the browser in and does not update last_login.
C29_LoginCsrfProtected ==
    [][\A t \in Threads :
          (/\ logins[t].pc = "auth"
           /\ logins'[t].pc = "done"
           /\ (logins[t].token = None \/ logins[t].token # session.csrf_token))
              => /\ session'.user_id = session.user_id
                 /\ users'.last_login = users.last_login]_vars

\* ------------------------------------------------------------------ C30
\* C30: in app_basic the form flashes 'Email successfully sent' and the API
\* answers 200 only when the gateway send succeeded; when the send failed the
\* form flashes the failure message and the API answers 500.
C30_SuccessOnlyWhenSent ==
    success # NoResult =>
        /\ (flash.text = FLASH_SENT => success[1])
        /\ (api_response.status = 200 => success[1])
        /\ (~success[1] => (flash.text = FLASH_NOT_SENT \/ api_response.status = 500))

====
